---- MODULE Spec2Model ----
(***************************************************************************)
(* A model of aiogram_dialog's dialog manager (ManagerImpl) and of its     *)
(* scoped accessor (SubManager).                                           *)
(*                                                                         *)
(* The manager of one event is the record Mgr: the fields of ManagerImpl,  *)
(* the Stack and the Context held in its middleware data, the storage     *)
(* behind the StorageProxy, and what the last call did (its error, its     *)
(* return value, the collaborator calls it made, in order).  Every method  *)
(* of the manager is an operator from such a record (and the method's      *)
(* arguments) to the record after the call; an exception is the field err, *)
(* and, as in Python, what the method changed before it raised stays       *)
(* changed.  An action is one call of a method by the code that uses the   *)
(* manager.                                                                *)
(***************************************************************************)
EXTENDS Integers, Sequences, FiniteSets, TLC

VARIABLES
    disabled,     \* ManagerImpl.disabled
    refs,         \* the attributes close_manager deletes, while the instance has them
    show_mode,    \* ManagerImpl._show_mode, the pending show mode
    event,        \* ManagerImpl._event
    stack,        \* _data[STACK_KEY]
    context,      \* _data[CONTEXT_KEY], NoContext when absent
    storage,      \* the contexts the storage holds, by intent id
    saved_stack,  \* <<intents>> as last written by save_stack, <<>> before the first write
    media_ids,    \* whether the media-id storage holds the dialog's media
    next_id,      \* the next intent id Stack.push hands out
    calls,        \* the collaborator calls of the last call, in order
    err,          \* the exception the last call raised, "none" when it returned
    ret,          \* what the last call returned
    last,         \* the last call: its name and arguments
    marks,        \* history: the starts not yet matched by a done
    n_events      \* the managers constructed after the first one

vars == <<disabled, refs, show_mode, event, stack, context, storage, saved_stack,
          media_ids, next_id, calls, err, ret, last, marks, n_events>>

None == "None"

(***************************************************************************)
(* Bounds of the model.                                                    *)
(***************************************************************************)
\* Intent ids handed out in one behaviour (Stack.push is not called once they are used up).
MaxIntents == 3
\* States (windows) of the dialog W.
MaxStates == 3
\* Managers constructed after the first one (one per further event).
MaxEvents == 1

(***************************************************************************)
(* Entities.                                                               *)
(***************************************************************************)
DEFAULT_STACK_ID == ""

ShowModes == {"AUTO", "SEND", "EDIT", "DELETE_AND_SEND", "NO_UPDATE"}

\* The dialogs of the registry, by state group, each with its launch mode: one of
\* each launch mode, and W, a dialog of several windows.
Groups == {"N", "S", "E", "R", "W"}

launch_mode(group) ==
    CASE group = "N" -> "NORMAL"
      [] group = "S" -> "SINGLE_TOP"
      [] group = "E" -> "EXCLUSIVE"
      [] group = "R" -> "ROOT"
      [] group = "W" -> "NORMAL"

NumStates(group) ==
    CASE group = "N" -> 1
      [] group = "S" -> 2
      [] group = "E" -> 1
      [] group = "R" -> 1
      [] group = "W" -> MaxStates

State(group, name) == [group |-> group, name |-> name]

\* DialogProtocol.states(): the dialog's states, in order, each once.
states(group) == [i \in 1 .. NumStates(group) |-> State(group, i)]

AllStates == UNION {{states(g)[i] : i \in 1 .. NumStates(g)} : g \in Groups}

\* registry.find_dialog(state): the dialog of the state's group.
find_dialog(state) == state.group

\* list.index(x): the first index holding x (0-based in the source, 1-based here).
index(seq, x) == CHOOSE i \in 1 .. Len(seq) : seq[i] = x /\ \A j \in 1 .. (i - 1) : seq[j] # x

EmptyDict == <<>>

\* dict.update(data): the keys of data overwrite, the others stay.
DictUpdate(d, data) ==
    [k \in (DOMAIN d) \cup (DOMAIN data) |-> IF k \in DOMAIN data THEN data[k] ELSE d[k]]

\* dict.setdefault(key, {}): the dict with key bound (to {} when it was missing).
SetDefault(d, key) ==
    IF key \in DOMAIN d THEN d ELSE [k \in (DOMAIN d) \cup {key} |-> IF k = key THEN EmptyDict ELSE d[k]]

\* No current context (Python's None); the ids of contexts start at 1.
NoContext == [id |-> 0]

\* Context(id, state, start_data): a new frame, its data empty.
NewContext(id, state, data) ==
    [id |-> id, state |-> state, start_data |-> data,
     dialog_data |-> EmptyDict, widget_data |-> EmptyDict]

\* Stack(id): a stack with no frame and no delivered message.
NewStack(id) ==
    [id |-> id, intents |-> <<>>, last_message_id |-> None, last_media_id |-> None,
     last_media_unique_id |-> None, last_reply_keyboard |-> FALSE,
     last_income_media_group_id |-> None]

\* Stack.empty()
StackEmpty(st) == st.intents = <<>>

\* Stack.last_intent_id()
last_intent_id(st) == st.intents[Len(st.intents)]

\* Stack.push(state, data): the stack with the new frame's id appended.
StackPush(st, id) == [st EXCEPT !.intents = Append(@, id)]

\* Stack.pop(): the stack without its last intent id.
StackPop(st) == [st EXCEPT !.intents = SubSeq(@, 1, Len(@) - 1)]

(***************************************************************************)
(* The manager as a record, and the bookkeeping of one call.               *)
(***************************************************************************)
Mgr ==
    [disabled |-> disabled, refs |-> refs, show_mode |-> show_mode, event |-> event,
     stack |-> stack, context |-> context, storage |-> storage,
     saved_stack |-> saved_stack, media_ids |-> media_ids, next_id |-> next_id,
     calls |-> calls, err |-> err, ret |-> ret]

Ok(m) == m.err = "none"

Raise(m, e) == [m EXCEPT !.err = e]

Return(m, v) == [m EXCEPT !.ret = v]

Call(m, c) == [m EXCEPT !.calls = Append(@, c)]

\* One collaborator call in the record of a call: the collaborator's operation, the
\* intent id it is about (for save_stack the depth of the stack written; 0 when it
\* has none), the show mode or result it is given (None when it has none) and, for
\* the message manager, the id of the old message it is given; for a dialog's
\* process_result the start data it is given, for the background manager's start
\* the id of the stack it is bound to.
Entry(op, id, arg) == [op |-> op, id |-> id, arg |-> arg, old |-> None, data |-> None]

\* The record a call starts from: nothing raised, nothing returned, nothing called yet.
Enter(m) == [m EXCEPT !.err = "none", !.ret = None, !.calls = <<>>]

(***************************************************************************)
(* StorageProxy.                                                           *)
(***************************************************************************)
remove_context(m, id) ==
    [Call(m, Entry("remove_context", id, None)) EXCEPT
        !.storage = [i \in (DOMAIN m.storage) \ {id} |-> m.storage[i]]]

save_context(m, ctx) ==
    [Call(m, Entry("save_context", ctx.id, None)) EXCEPT
        !.storage = [i \in (DOMAIN m.storage) \cup {ctx.id} |->
                        IF i = ctx.id THEN ctx ELSE m.storage[i]]]

\* load_context(intent_id): the stored context, absent when there is none.
load_context(m, id) == IF id \in DOMAIN m.storage THEN m.storage[id] ELSE NoContext

save_stack(m) ==
    [Call(m, Entry("save_stack", Len(m.stack.intents), None)) EXCEPT
        !.saved_stack = <<m.stack.intents>>]

(***************************************************************************)
(* ManagerImpl: guards and accessors.  An operator handed a manager that   *)
(* has raised returns it as it is: the exception propagates to the caller. *)
(***************************************************************************)
check_disabled(m) ==
    IF ~Ok(m) THEN m
    ELSE IF m.disabled THEN Raise(m, "IncorrectBackgroundError")
    ELSE m

\* The property event: reads self._event, which close_manager deletes.
event_attr(m) ==
    IF ~Ok(m) THEN m
    ELSE IF "_event" \in m.refs THEN m
    ELSE Raise(m, "AttributeError")

\* bool(self._current_context_unsafe())
has_context_unsafe(m) == m.context # NoContext

\* current_context, the disabled check passed.
context_or_raise(m) ==
    IF ~Ok(m) THEN m
    ELSE IF ~has_context_unsafe(m) THEN Raise(m, "NoContextError")
    ELSE Return(m, m.context)

current_context(m) == context_or_raise(check_disabled(m))

has_context_value(m) == IF ~Ok(m) THEN m ELSE Return(m, has_context_unsafe(m))

has_context(m) == has_context_value(check_disabled(m))

current_stack_value(m) == IF ~Ok(m) THEN m ELSE Return(m, m.stack)

current_stack(m) == current_stack_value(check_disabled(m))

\* registry.find_dialog(current.state), the current context found.
dialog_of_context(m) == IF ~Ok(m) THEN m ELSE Return(m, find_dialog(m.context.state))

\* dialog(): the dialog of the current context's state.
dialog(m) == dialog_of_context(current_context(check_disabled(m)))

\* isinstance(self.event, Message): an ErrorEvent wrapping a message is not one.
is_message(m) == m.event.kind = "Message" /\ ~m.event.error

is_callback(m) == m.event.kind = "CallbackQuery" /\ ~m.event.error

(***************************************************************************)
(* The show-mode decision.                                                 *)
(***************************************************************************)
_calc_show_mode(m) ==
    IF m.show_mode # "AUTO" THEN m.show_mode
    ELSE IF m.stack.last_reply_keyboard THEN "DELETE_AND_SEND"
    ELSE IF m.stack.id # DEFAULT_STACK_ID THEN "EDIT"
    ELSE IF is_message(m)
         THEN IF m.event.media_group_id = None THEN "SEND"
              ELSE IF m.event.media_group_id = m.stack.last_income_media_group_id THEN "EDIT"
              ELSE "SEND"
    ELSE "EDIT"

\* No old message (Python's None).
NoMessage == [message_id |-> None, media_id |-> None, has_reply_keyboard |-> FALSE]

_get_message_from_callback(m) ==
    IF m.event.message_id # None
    THEN [message_id |-> m.event.message_id, media_id |-> None,
          has_reply_keyboard |-> m.event.simulated]
    ELSE IF m.stack.last_message_id = None THEN NoMessage
    ELSE [message_id |-> m.stack.last_message_id, media_id |-> None,
          has_reply_keyboard |-> m.event.simulated]

\* The event an ErrorEvent wraps is looked into; a callback's message comes first.
_get_last_message(m) ==
    IF m.event.kind = "CallbackQuery" THEN _get_message_from_callback(m)
    ELSE IF m.stack.last_message_id = None THEN NoMessage
    ELSE [message_id |-> m.stack.last_message_id, media_id |-> m.stack.last_media_id,
          has_reply_keyboard |-> m.stack.last_reply_keyboard]

_save_last_message(m, message) ==
    [m EXCEPT !.stack.last_message_id = message.message_id,
              !.stack.last_media_id = message.media_id,
              !.stack.last_media_unique_id = message.media_uniq_id,
              !.stack.last_reply_keyboard = message.has_reply_keyboard]

\* A _remove_kbd that asks for the removal whether or not the stack has a last message.
_remove_kbd_unchecked(m) ==
    [Call(m, [Entry("remove_kbd", 0, _calc_show_mode(m)) EXCEPT
                 !.old = _get_last_message(m).message_id])
       EXCEPT !.stack.last_message_id = None]

_remove_kbd(m) ==
    IF m.stack.last_message_id = None THEN m
    ELSE [Call(m, [Entry("remove_kbd", 0, _calc_show_mode(m)) EXCEPT
                      !.old = _get_last_message(m).message_id])
            EXCEPT !.stack.last_message_id = None]

_process_last_dialog_result(m) == _remove_kbd(m)

\* A show that lets any stack send a reply keyboard.
_ensure_stack_compatible_any(m, new_message) == m

_ensure_stack_compatible(m, new_message) ==
    IF ~Ok(m) THEN m
    ELSE IF m.stack.id = DEFAULT_STACK_ID THEN m
    ELSE IF new_message.reply_keyboard THEN Raise(m, "InvalidKeyboardType")
    ELSE m

\* Looks the media id up in the media-id storage when the message has media without one.
_fix_cached_media_id(m, new_message) ==
    IF ~Ok(m) THEN m
    ELSE IF ~new_message.media THEN m
    ELSE Call(m, Entry("get_media_id", 0, None))

\* show_mode or self.show_mode: the members of ShowMode are all true.
effective_show_mode(m, mode) == IF mode # None THEN mode ELSE m.show_mode

\* The show mode of the message show hands to the message manager.
new_message_show_mode(m, mode) ==
    IF effective_show_mode(m, mode) = "AUTO" THEN _calc_show_mode(m)
    ELSE effective_show_mode(m, mode)

\* await self.dialog().render(self)
dialog_render(m) ==
    IF ~Ok(m) THEN m ELSE Return(Call(m, Entry("render", m.context.id, None)), None)

\* await self.media_id_storage.save_media_id(...), when the message shown has media.
show_save_media(m, env) ==
    IF env.render.media
    THEN [Call(m, Entry("save_media_id", 0, env.delivery.media_id)) EXCEPT !.media_ids = TRUE]
    ELSE m

\* A show that stores the identifiers of an answer it did not get.
show_sent_always(m, env) == show_save_media(_save_last_message(m, env.delivery), env)

\* What show does with the message manager's answer: env.delivery is the sent message,
\* or (modified FALSE) the message manager's MessageNotModified.
show_sent(m, env) ==
    IF ~env.delivery.modified THEN m
    ELSE show_save_media(_save_last_message(m, env.delivery), env)

\* The call of the message manager and what follows it.
show_deliver(m, mode, env) ==
    IF ~Ok(m) THEN m
    ELSE show_sent(Call(m, [Entry("show_message", m.context.id, new_message_show_mode(m, mode))
                               EXCEPT !.old = _get_last_message(m).message_id]), env)

\* A show that never records the media group id of its event.
show_record_group_never(m) == m

\* The last statement of show: a message event's media group id is recorded.
show_record_group(m) ==
    IF ~Ok(m) THEN m
    ELSE IF is_message(m)
    THEN [m EXCEPT !.stack.last_income_media_group_id = m.event.media_group_id]
    ELSE m

\* show, the disabled check passed.
show_render(m, mode, env) ==
    IF ~Ok(m) THEN m
    ELSE IF m.show_mode = "NO_UPDATE" THEN m
    ELSE show_record_group(
             show_deliver(
                 _ensure_stack_compatible(
                     _fix_cached_media_id(dialog_render(dialog(m)), env.render), env.render),
                 mode, env))

show(m, mode, env) == show_render(check_disabled(m), mode, env)

(***************************************************************************)
(* ManagerImpl: the stack.                                                 *)
(***************************************************************************)
\* await storage.remove_context(stack.pop())
pop_intent(m) == remove_context([m EXCEPT !.stack = StackPop(@)], last_intent_id(m.stack))

\* A mark_closed that forgets the reload: the popped frame's context stays current.
load_top_stale(m) == m

\* mark_closed's reload: the context of the frame now on top, none when no frame is left.
load_top(m) ==
    [m EXCEPT !.context = IF StackEmpty(m.stack) THEN NoContext
                          ELSE load_context(m, last_intent_id(m.stack))]

\* A mark_closed that forgets stack.pop(): the frame stays on the stack.
mark_closed_top_keep(m) ==
    IF ~Ok(m) THEN m
    ELSE IF StackEmpty(m.stack) THEN Raise(m, "IndexError")
    ELSE save_stack(load_top(m))

\* mark_closed, the disabled check passed; stack.pop() of no frame is an IndexError.
mark_closed_top(m) ==
    IF ~Ok(m) THEN m
    ELSE IF StackEmpty(m.stack) THEN Raise(m, "IndexError")
    ELSE save_stack(load_top(pop_intent(m)))

mark_closed(m) == mark_closed_top(check_disabled(m))

\* while not stack.empty(): await storage.remove_context(stack.pop())
RECURSIVE pop_all(_)
pop_all(m) == IF StackEmpty(m.stack) THEN m ELSE pop_all(pop_intent(m))

\* A reset_stack that removes the keyboard whatever remove_keyboard is.
remove_kbd_always(m, remove_keyboard) == _remove_kbd(m)

\* if remove_keyboard: await self._remove_kbd()
remove_kbd_if(m, remove_keyboard) == IF remove_keyboard THEN _remove_kbd(m) ELSE m

\* reset_stack, the disabled check passed.
reset_stack_clear(m, remove_keyboard) ==
    IF ~Ok(m) THEN m
    ELSE [remove_kbd_if(save_stack(pop_all(m)), remove_keyboard) EXCEPT !.context = NoContext]

reset_stack(m, remove_keyboard) == reset_stack_clear(check_disabled(m), remove_keyboard)

\* A _start_normal that finds the EXCLUSIVE dialog on top only after clearing the stack.
start_normal_refuse_late(m) ==
    IF ~Ok(m) THEN m
    ELSE IF launch_mode(find_dialog(m.context.state)) = "EXCLUSIVE"
         THEN Raise(reset_stack(m, FALSE), "ValueError")
    ELSE m

\* _start_normal's refusal: a dialog is not started on top of an EXCLUSIVE one.
start_normal_refuse(m) ==
    IF ~Ok(m) THEN m
    ELSE IF launch_mode(find_dialog(m.context.state)) = "EXCLUSIVE" THEN Raise(m, "ValueError")
    ELSE m

\* old_dialog of _start_normal: the dialog on top, None on an empty stack.
start_normal_old_dialog(m) ==
    IF ~Ok(m) THEN m
    ELSE IF StackEmpty(m.stack) THEN Return(m, None)
    ELSE start_normal_refuse(dialog(m))

\* A _start_normal that clears the stack for EXCLUSIVE only.
start_normal_launch_root(m, state) ==
    IF ~Ok(m) THEN m
    ELSE IF launch_mode(find_dialog(state)) = "EXCLUSIVE" THEN reset_stack(m, FALSE)
    ELSE IF launch_mode(find_dialog(state)) = "SINGLE_TOP" /\ find_dialog(state) = m.ret
         THEN [pop_intent(m) EXCEPT !.context = NoContext]
    ELSE m

\* A _start_normal that never pops for SINGLE_TOP.
start_normal_launch_push(m, state) ==
    IF ~Ok(m) THEN m
    ELSE IF launch_mode(find_dialog(state)) \in {"EXCLUSIVE", "ROOT"}
         THEN reset_stack(m, FALSE)
    ELSE m

\* What the new dialog's launch mode clears or pops; m.ret is old_dialog.
start_normal_launch(m, state) ==
    IF ~Ok(m) THEN m
    ELSE IF launch_mode(find_dialog(state)) \in {"EXCLUSIVE", "ROOT"}
         THEN reset_stack(m, FALSE)
    ELSE IF launch_mode(find_dialog(state)) = "SINGLE_TOP" /\ find_dialog(state) = m.ret
         THEN [pop_intent(m) EXCEPT !.context = NoContext]
    ELSE m

\* The part of _start_normal before the push.
start_normal_prepare(m, state) ==
    start_normal_launch(start_normal_old_dialog(current_stack(m)), state)

\* A _start_normal that pushes without saving the context it supersedes.
save_current_never(m) == m

\* if self.has_context(): await self.storage().save_context(self.current_context())
save_current(m) == IF has_context_unsafe(m) THEN save_context(m, m.context) ELSE m

\* context = stack.push(state, data); self._data[CONTEXT_KEY] = context
push_frame(m, state, data) ==
    [m EXCEPT !.stack = StackPush(@, m.next_id),
              !.context = NewContext(m.next_id, state, data),
              !.next_id = @ + 1]

\* The prior current context is saved, then the new frame is pushed and made current.
start_normal_push(m, state, data) ==
    IF ~Ok(m) THEN m ELSE push_frame(save_current(m), state, data)

\* switch_to's check: the state asked for is of the current context's group.
switch_to_check(m, state) ==
    IF ~Ok(m) THEN m
    ELSE IF m.context.state.group # state.group THEN Raise(m, "ValueError")
    ELSE m

\* A switch_to that installs a new context of the same id in the place of the old one.
switch_to_apply_fresh(m, state, mode) ==
    IF ~Ok(m) THEN m
    ELSE [m EXCEPT !.show_mode = effective_show_mode(m, mode),
                   !.context = NewContext(m.context.id, state, m.context.start_data)]

\* switch_to's change of the manager, its checks passed.
switch_to_apply(m, state, mode) ==
    IF ~Ok(m) THEN m
    ELSE [m EXCEPT !.show_mode = effective_show_mode(m, mode), !.context.state = state]

switch_to(m, state, mode) ==
    switch_to_apply(switch_to_check(current_context(check_disabled(m)), state), state, mode)

\* list[k] of Python, k counted from 0: a negative k counts from the end.
py_in_range(seq, k) == -Len(seq) <= k /\ k < Len(seq)

py_getitem(seq, k) == IF k < 0 THEN seq[Len(seq) + k + 1] ELSE seq[k + 1]

\* states.index(context.state), counted from 0.
current_index(m) == index(states(m.context.state.group), m.context.state) - 1

next_index(i) == i + 1

\* A back that retreats two states.
back_index_two(i) == i - 2

back_index(i) == i - 1

\* new_state = states[k]; await self.switch_to(new_state, show_mode); m.ret is the dialog.
switch_to_index(m, k, mode) ==
    IF ~py_in_range(states(m.ret), k) THEN Raise(m, "IndexError")
    ELSE switch_to(m, py_getitem(states(m.ret), k), mode)

\* next, its context and its dialog found.
next_state(m, mode) ==
    IF ~Ok(m) THEN m ELSE switch_to_index(m, next_index(current_index(m)), mode)

next(m, mode) == next_state(dialog(current_context(m)), mode)

\* back, its context and its dialog found.
back_state(m, mode) ==
    IF ~Ok(m) THEN m ELSE switch_to_index(m, back_index(current_index(m)), mode)

back(m, mode) == back_state(dialog(current_context(m)), mode)

\* self.current_context().dialog_data.update(data)
update_data(m, data) ==
    IF ~Ok(m) THEN m ELSE [m EXCEPT !.context.dialog_data = DictUpdate(@, data)]

update(m, data, mode, env) == show(update_data(current_context(m), data), mode, env)

(***************************************************************************)
(* ManagerImpl: the background manager.                                    *)
(***************************************************************************)
\* Stack(): the id of a new stack is drawn at random, so it is no id in use.
FreshStackId == "fresh"

\* User ids and chat ids start at 1; 0 stands for None (and for no "event_chat").
_get_fake_user(m, user_id) ==
    IF user_id = 0 \/ user_id = m.event.user_id
    THEN [id |-> m.event.user_id, fake |-> FALSE]
    ELSE [id |-> user_id, fake |-> TRUE]

_get_fake_chat_raises(m, chat_id) == m.event.chat_id = 0 /\ chat_id = 0

_get_fake_chat(m, chat_id) ==
    IF m.event.chat_id # 0 /\ (chat_id = 0 \/ chat_id = m.event.chat_id)
    THEN [id |-> m.event.chat_id, fake |-> FALSE]
    ELSE [id |-> chat_id, fake |-> TRUE]

\* An is_same_chat that compares the chats only.
is_same_chat_any_user(m, user, chat) ==
    IF m.event.chat_id = 0 THEN FALSE ELSE chat.id = m.event.chat_id

is_same_chat(m, user, chat) ==
    IF m.event.chat_id = 0 THEN FALSE
    ELSE user.id = m.event.user_id /\ chat.id = m.event.chat_id

\* The stack id and the intent id bg gives the BgManager.
bg_target(m, user, chat, stack_id) ==
    IF stack_id # None THEN [stack_id |-> stack_id, intent_id |-> 0]
    ELSE IF is_same_chat(m, user, chat)
         THEN [stack_id |-> m.stack.id,
               intent_id |-> IF has_context_unsafe(m) THEN m.context.id ELSE 0]
    ELSE [stack_id |-> DEFAULT_STACK_ID, intent_id |-> 0]

\* The BgManager bg returns.
bg_manager(m, user, chat, target, load) ==
    Return(m, [user |-> user, chat |-> chat, load |-> load,
               stack_id |-> target.stack_id, intent_id |-> target.intent_id])

\* bg once it has the user and the chat: in the same chat with no stack id given it
\* reads the current stack.
bg_stack(m, user, chat, stack_id, load) ==
    IF stack_id = None /\ is_same_chat(m, user, chat) /\ m.disabled THEN check_disabled(m)
    ELSE bg_manager(m, user, chat, bg_target(m, user, chat, stack_id), load)

\* bg, self.event read.
bg_chat(m, user_id, chat_id, stack_id, load) ==
    IF ~Ok(m) THEN m
    ELSE IF _get_fake_chat_raises(m, chat_id) THEN Raise(m, "ValueError")
    ELSE bg_stack(m, _get_fake_user(m, user_id), _get_fake_chat(m, chat_id), stack_id, load)

bg(m, user_id, chat_id, stack_id, load) == bg_chat(event_attr(m), user_id, chat_id, stack_id, load)

\* _start_new_stack, its BgManager made: the start is handed to it.
bg_start(m) ==
    IF ~Ok(m) THEN m
    ELSE Call(m, [Entry("bg_start", 0, "NORMAL") EXCEPT !.data = m.ret.stack_id])

\* A _start_new_stack that asks bg for the stack of the event.
_start_new_stack_here(m, state, data) == bg_start(bg(m, 0, 0, None, FALSE))

_start_new_stack(m, state, data) == bg_start(bg(m, 0, 0, FreshStackId, FALSE))

\* answer_callback, self.event read.
answer_callback_event(m) ==
    IF ~Ok(m) THEN m
    ELSE IF ~is_callback(m) THEN m
    ELSE IF m.event.simulated THEN m
    ELSE Call(m, Entry("answer_callback", 0, None))

answer_callback(m) == answer_callback_event(event_attr(m))

\* The widgets a dialog finds by id.
Widgets == {"list"}

\* dialog.find(widget_id), the dialog found.
find_widget(m, widget_id) ==
    IF ~Ok(m) THEN m ELSE Return(m, IF widget_id \in Widgets THEN widget_id ELSE None)

find(m, widget_id) == find_widget(dialog(m), widget_id)

\* close_manager, the disabled check passed.
close_refs(m) == IF ~Ok(m) THEN m ELSE [m EXCEPT !.disabled = TRUE, !.refs = {}]

close_manager(m) == close_refs(check_disabled(m))

(***************************************************************************)
(* ManagerImpl: start and done, with the dialogs' hooks.  A hook is code   *)
(* of the dialog that is handed the manager: it may call it.  start and    *)
(* done are each cut at their hooks: _before is the method up to a hook,   *)
(* _after what it does once the hook has returned.                         *)
(***************************************************************************)
StartModes == {"NORMAL", "RESET_STACK", "NEW_STACK"}

\* await self.dialog().process_start(self, data, state), up to the hook.
process_start(m, data) ==
    IF ~Ok(m) THEN m
    ELSE Call(m, [Entry("process_start", m.context.id, None) EXCEPT !.data = data])

\* _start_normal up to the entry hook: the new frame is pushed and the dialog's
\* process_start is called.
start_normal_before(m, state, data) ==
    process_start(dialog(start_normal_push(start_normal_prepare(m, state), state, data)), data)

\* A _start_normal that shows whatever context the entry hook left.
start_normal_after_any(m, pushed, env) ==
    IF has_context_unsafe(m) THEN show(m, None, env) ELSE m

\* _start_normal once the entry hook has returned, pushed the id of the frame pushed:
\* show when the current context is still that frame's.
start_normal_after(m, pushed, env) ==
    IF has_context_unsafe(m) /\ m.context.id = pushed THEN show(m, None, env) ELSE m

\* self.show_mode = show_mode or self.show_mode
set_show_mode(m, sm) ==
    IF ~Ok(m) THEN m ELSE [m EXCEPT !.show_mode = effective_show_mode(m, sm)]

\* A start that refuses RESET_STACK over an EXCLUSIVE dialog as it refuses NORMAL.
start_mode_refusing(m, state, data, mode) ==
    IF ~Ok(m) THEN m
    ELSE IF mode = "NORMAL" THEN start_normal_before(m, state, data)
    ELSE IF mode = "RESET_STACK"
         THEN start_normal_before(reset_stack(start_normal_old_dialog(m), FALSE), state, data)
    ELSE IF mode = "NEW_STACK" THEN _start_new_stack(m, state, data)
    ELSE Raise(m, "ValueError")

\* A start whose RESET_STACK removes the keyboard.
start_mode_kbd(m, state, data, mode) ==
    IF ~Ok(m) THEN m
    ELSE IF mode = "NORMAL" THEN start_normal_before(m, state, data)
    ELSE IF mode = "RESET_STACK" THEN start_normal_before(reset_stack(m, TRUE), state, data)
    ELSE IF mode = "NEW_STACK" THEN _start_new_stack(m, state, data)
    ELSE Raise(m, "ValueError")

\* start's dispatch on the start mode, up to the entry hook.
start_mode(m, state, data, mode) ==
    IF ~Ok(m) THEN m
    ELSE IF mode = "NORMAL" THEN start_normal_before(m, state, data)
    ELSE IF mode = "RESET_STACK" THEN start_normal_before(reset_stack(m, FALSE), state, data)
    ELSE IF mode = "NEW_STACK" THEN _start_new_stack(m, state, data)
    ELSE Raise(m, "ValueError")

\* start up to the entry hook (the whole of it for the start mode NEW_STACK).
start_before(m, state, data, mode, sm) ==
    start_mode(set_show_mode(check_disabled(m), sm), state, data, mode)

\* Whether the entry hook runs: start has pushed a frame on this stack.
start_hooked(m, mode) == Ok(m) /\ mode # "NEW_STACK"

\* start, given the manager as the entry hook left it.
start_after(before, hooked, mode, env) ==
    IF ~start_hooked(before, mode) THEN before
    ELSE IF ~Ok(hooked) THEN hooked
    ELSE start_normal_after(hooked, before.context.id, env)

\* await self.dialog().process_close(result, self), up to the hook.
process_close(m, result) ==
    IF ~Ok(m) THEN m ELSE Call(m, Entry("process_close", m.context.id, result))

\* done up to the close hook: the dialog's process_close is called.
done_before(m, result) == process_close(dialog(check_disabled(m)), result)

\* await dialog.process_result(old_context.start_data, result, self), up to the hook.
process_result(m, start_data, result) ==
    IF ~Ok(m) THEN m
    ELSE Call(m, [Entry("process_result", m.context.id, result) EXCEPT !.data = start_data])

\* done after mark_closed: the keyboard is removed when no frame is left, else
\* process_result of the dialog now on top is called.
done_result(m, start_data, result) ==
    IF ~Ok(m) THEN m
    ELSE IF ~has_context_unsafe(m) THEN _process_last_dialog_result(m)
    ELSE process_result(dialog(m), start_data, result)

\* A done that persists the stack only after the result hook's dialog was notified.
done_closed_late_save(old, result) ==
    IF ~Ok(old) THEN old
    ELSE save_stack(done_result(load_top(pop_intent(check_disabled(old))),
                                old.context.start_data, result))

\* done between its hooks, old the manager as the close hook left it: the frame is popped.
done_closed(old, result) ==
    IF ~Ok(old) THEN old ELSE done_result(mark_closed(old), old.context.start_data, result)

done_pop(m, result) == done_closed(current_context(m), result)

\* Whether the result hook runs: done has popped a frame and one is left.
done_hooked(m) == Ok(m) /\ has_context_unsafe(m)

\* done once the result hook has returned, popped the manager as the pop left it:
\* show when the current context is still the one the pop made current.
done_after(popped, hooked, mode, env) ==
    IF ~done_hooked(popped) THEN popped
    ELSE IF ~Ok(hooked) THEN hooked
    ELSE IF has_context_unsafe(hooked) /\ hooked.context.id = popped.context.id
         THEN show(hooked, mode, env)
    ELSE hooked

\* start and done when the dialogs' hooks do nothing.
start_unhooked(before, mode, env) == start_after(before, before, mode, env)

start_plain(m, state, data, mode, sm, env) ==
    start_unhooked(start_before(m, state, data, mode, sm), mode, env)

done_unhooked(popped, mode, env) == done_after(popped, popped, mode, env)

done_plain(m, result, mode, env) == done_unhooked(done_pop(done_before(m, result), result), mode, env)

NoHook == [kind |-> "none", state |-> State("N", 1)]

\* What a hook does with the manager it is handed; the dialogs it starts or resumes
\* run hooks that do nothing.
run_hook(m, hook, env) ==
    IF ~Ok(m) THEN m
    ELSE CASE hook.kind = "none" -> m
           [] hook.kind = "start" -> start_plain(m, hook.state, None, "NORMAL", None, env)
           [] hook.kind = "done" -> done_plain(m, None, None, env)
           [] hook.kind = "switch_to" -> switch_to(m, hook.state, None)

\* The entry hook, run when start has pushed a frame.
start_hook(before, mode, hook, env) ==
    IF start_hooked(before, mode) THEN run_hook(before, hook, env) ELSE before

start_hooks(before, mode, hook, env) ==
    start_after(before, start_hook(before, mode, hook, env), mode, env)

start(m, state, data, mode, sm, hook, env) ==
    start_hooks(start_before(m, state, data, mode, sm), mode, hook, env)

\* The result hook, run when done has popped a frame and one is left.
done_hook(popped, hook, env) ==
    IF done_hooked(popped) THEN run_hook(popped, hook, env) ELSE popped

done_hooks(popped, mode, hook, env) == done_after(popped, done_hook(popped, hook, env), mode, env)

done(m, result, mode, close_hook, result_hook, env) ==
    done_hooks(done_pop(run_hook(done_before(m, result), close_hook, env), result),
               mode, result_hook, env)

(***************************************************************************)
(* SubManager: the accessor of one item of one widget.                     *)
(***************************************************************************)
\* dataclasses.replace(context, widget_data=row_data): the parent's context with the
\* item's row in the place of its widget data; its other fields are the parent's own.
sub_view(ctx, row_data) == [ctx EXCEPT !.widget_data = row_data]

\* The parent's widget data with the widget's and the item's rows bound (setdefault).
sub_rows(widget_data, widget_id, item_id) ==
    [SetDefault(widget_data, widget_id) EXCEPT ![widget_id] = SetDefault(@, item_id)]

\* current_context(), the parent's context found: binds the rows and returns the view.
sub_bind(m, widget_id, item_id) ==
    IF ~Ok(m) THEN m
    ELSE Return([m EXCEPT !.context.widget_data = sub_rows(@, widget_id, item_id)],
                sub_view(m.context,
                         sub_rows(m.context.widget_data, widget_id, item_id)[widget_id][item_id]))

sub_current_context(m, widget_id, item_id) == sub_bind(current_context(m), widget_id, item_id)

\* The property dialog_data.
sub_dialog_data_of(m) == IF ~Ok(m) THEN m ELSE Return(m, m.ret.dialog_data)

sub_dialog_data(m, widget_id, item_id) == sub_dialog_data_of(sub_current_context(m, widget_id, item_id))

\* A view whose widget_data is the widget's mapping, not the item's row.
sub_write_field_widget(m, widget_id, item_id, field, data) ==
    IF ~Ok(m) THEN m
    ELSE IF field = "widget_data"
         THEN [m EXCEPT !.context.widget_data[widget_id] = DictUpdate(@, data)]
    ELSE [m EXCEPT !.context.dialog_data = DictUpdate(@, data)]

\* A handler's write through a mapping of the view, field of sub.current_context():
\* the view's widget_data is the item's row of the parent's widget data, its
\* dialog_data is the parent's dialog_data itself.
sub_write_field(m, widget_id, item_id, field, data) ==
    IF ~Ok(m) THEN m
    ELSE IF field = "widget_data"
         THEN [m EXCEPT !.context.widget_data[widget_id][item_id] = DictUpdate(@, data)]
    ELSE [m EXCEPT !.context.dialog_data = DictUpdate(@, data)]

sub_write(m, widget_id, item_id, field, data) ==
    sub_write_field(sub_current_context(m, widget_id, item_id), widget_id, item_id, field, data)

\* update(data, show_mode): self.current_context().dialog_data.update(data), then show.
sub_update(m, widget_id, item_id, data, mode, env) ==
    show(sub_write(m, widget_id, item_id, "dialog_data", data), mode, env)

(***************************************************************************)
(* The state machine: one action per call of a method.                     *)
(***************************************************************************)
Attributes == {"media_id_storage", "message_manager", "_event", "_data"}

\* The message a dialog renders, and the message manager's answer to show_message.
Render(reply_keyboard, media) == [reply_keyboard |-> reply_keyboard, media |-> media]

Sent(message_id, media_id, has_reply_keyboard) ==
    [modified |-> TRUE, message_id |-> message_id, media_id |-> media_id,
     media_uniq_id |-> media_id, has_reply_keyboard |-> has_reply_keyboard]

NotModified ==
    [modified |-> FALSE, message_id |-> None, media_id |-> None,
     media_uniq_id |-> None, has_reply_keyboard |-> FALSE]

Env(render, delivery) == [render |-> render, delivery |-> delivery]

Event(kind, error, media_group_id, message_id, chat_id) ==
    [kind |-> kind, error |-> error, media_group_id |-> media_group_id,
     message_id |-> message_id, simulated |-> FALSE, user_id |-> 1, chat_id |-> chat_id]

\* ManagerImpl(event, ..., data): the manager of an event, its stack and context the
\* ones the middleware data holds.
Construct(ev, stack_id) ==
    /\ disabled = FALSE
    /\ refs = Attributes
    /\ show_mode = "AUTO"
    /\ event = ev
    /\ stack = NewStack(stack_id)
    /\ context = NoContext
    /\ storage = <<>>
    /\ saved_stack = <<>>
    /\ media_ids = FALSE
    /\ next_id = 1
    /\ calls = <<>>
    /\ err = "none"
    /\ ret = None
    /\ marks = <<>>
    /\ n_events = 0

NoState == State("", 0)

\* The environment recorded for calls that are not a show.
NoEnv == Env(Render(FALSE, FALSE), NotModified)

Last(op) ==
    [op |-> op, state |-> NoState, mode |-> None, sm |-> None, hook |-> "none",
     item |-> None, field |-> None, data |-> EmptyDict, mark |-> -1, plain |-> FALSE,
     user_id |-> 0, chat_id |-> 0, stack_id |-> None, env |-> NoEnv,
     result |-> None, exclusive |-> FALSE]

\* The manager after a call.
Do(m) ==
    /\ disabled' = m.disabled
    /\ refs' = m.refs
    /\ show_mode' = m.show_mode
    /\ event' = m.event
    /\ stack' = m.stack
    /\ context' = m.context
    /\ storage' = m.storage
    /\ saved_stack' = m.saved_stack
    /\ media_ids' = m.media_ids
    /\ next_id' = m.next_id
    /\ calls' = m.calls
    /\ err' = m.err
    /\ ret' = m.ret
    /\ n_events' = n_events

\* A call that returns nothing.
DoProc(m) == Do(Return(m, None))

\* History: whether a start pushes its frame on top of the frames there are, without
\* clearing the stack or replacing the top frame.
PlainStart(m, state, mode) ==
    /\ mode = "NORMAL"
    /\ \/ launch_mode(find_dialog(state)) = "NORMAL"
       \/ /\ launch_mode(find_dialog(state)) = "SINGLE_TOP"
          /\ StackEmpty(m.stack) \/ find_dialog(m.context.state) # find_dialog(state)

Unplain(ms) == [i \in DOMAIN ms |-> [ms[i] EXCEPT !.plain = FALSE]]

\* Whether the dialog on top of the stack is the EXCLUSIVE one.
ExclusiveOnTop ==
    context # NoContext /\ launch_mode(find_dialog(context.state)) = "EXCLUSIVE"

\* The history after a start that returned new.
Started(new, state, mode, sm, hook, plain) ==
    /\ new.next_id <= MaxIntents + 1
    /\ DoProc(new)
    /\ last' = [Last("start") EXCEPT !.state = state, !.mode = mode, !.sm = sm,
                                     !.hook = hook.kind,
                                     !.exclusive = mode = "RESET_STACK" /\ ExclusiveOnTop]
    /\ marks' = IF mode = "NEW_STACK" THEN marks
                ELSE IF ~Ok(new) \/ hook.kind # "none" THEN <<>>
                ELSE IF plain
                     THEN Append(marks, [depth |-> Len(stack.intents), plain |-> TRUE])
                ELSE Append(Unplain(marks), [depth |-> Len(stack.intents), plain |-> FALSE])

Start(state, data, mode, sm, hook, env) ==
    Started(start(Enter(Mgr), state, data, mode, sm, hook, env), state, mode, sm, hook,
            PlainStart(Mgr, state, mode))

\* The history after a done that returned new; clean when its hooks did nothing.
Finished(new, result, sm, hook, clean) ==
    /\ new.next_id <= MaxIntents + 1
    /\ DoProc(new)
    /\ last' = [Last("done") EXCEPT
                    !.result = result,
                    !.sm = sm,
                    !.hook = hook,
                    !.mark = IF clean /\ Ok(new) /\ marks # <<>>
                             THEN marks[Len(marks)].depth ELSE -1,
                    !.plain = IF clean /\ Ok(new) /\ marks # <<>>
                              THEN marks[Len(marks)].plain ELSE FALSE]
    /\ marks' = IF ~(clean /\ Ok(new)) THEN <<>>
                ELSE IF marks = <<>> THEN marks
                ELSE SubSeq(marks, 1, Len(marks) - 1)

Done(result, sm, close_hook, result_hook, env) ==
    Finished(done(Enter(Mgr), result, sm, close_hook, result_hook, env), result, sm,
             IF close_hook.kind # "none" THEN close_hook.kind ELSE result_hook.kind,
             close_hook.kind = "none" /\ result_hook.kind = "none")

SwitchTo(state, sm) ==
    /\ DoProc(switch_to(Enter(Mgr), state, sm))
    /\ last' = [Last("switch_to") EXCEPT !.state = state, !.sm = sm]
    /\ UNCHANGED marks

NextState(sm) ==
    /\ DoProc(next(Enter(Mgr), sm))
    /\ last' = [Last("next") EXCEPT !.sm = sm]
    /\ UNCHANGED marks

Back(sm) ==
    /\ DoProc(back(Enter(Mgr), sm))
    /\ last' = [Last("back") EXCEPT !.sm = sm]
    /\ UNCHANGED marks

ResetStack(remove_keyboard) ==
    /\ DoProc(reset_stack(Enter(Mgr), remove_keyboard))
    /\ last' = [Last("reset_stack") EXCEPT !.mode = IF remove_keyboard THEN "remove" ELSE "keep"]
    /\ marks' = <<>>

MarkClosed ==
    /\ DoProc(mark_closed(Enter(Mgr)))
    /\ last' = Last("mark_closed")
    /\ marks' = <<>>

Show(sm, env) ==
    /\ DoProc(show(Enter(Mgr), sm, env))
    /\ last' = [Last("show") EXCEPT !.sm = sm, !.env = env]
    /\ UNCHANGED marks

Update(data, sm, env) ==
    /\ DoProc(update(Enter(Mgr), data, sm, env))
    /\ last' = [Last("update") EXCEPT !.sm = sm]
    /\ UNCHANGED marks

\* The calls that change nothing and return a value.
Query(op) ==
    /\ Do(CASE op = "current_context" -> current_context(Enter(Mgr))
            [] op = "current_stack" -> current_stack(Enter(Mgr))
            [] op = "has_context" -> has_context(Enter(Mgr))
            [] op = "dialog" -> dialog(Enter(Mgr))
            [] op = "find" -> find(Enter(Mgr), "list"))
    /\ last' = Last(op)
    /\ UNCHANGED marks

Queries == {"current_context", "current_stack", "has_context", "dialog", "find"}

Bg(user_id, chat_id, stack_id) ==
    /\ Do(bg(Enter(Mgr), user_id, chat_id, stack_id, FALSE))
    /\ last' = [Last("bg") EXCEPT !.user_id = user_id, !.chat_id = chat_id,
                                  !.stack_id = stack_id]
    /\ UNCHANGED marks

AnswerCallback ==
    /\ DoProc(answer_callback(Enter(Mgr)))
    /\ last' = Last("answer_callback")
    /\ UNCHANGED marks

CloseManager ==
    /\ DoProc(close_manager(Enter(Mgr)))
    /\ last' = Last("close_manager")
    /\ UNCHANGED marks

\* The next event's manager, constructed once the manager before it is closed: a new
\* instance over the same stack, context and storage.
NewEvent(ev) ==
    /\ disabled
    /\ n_events < MaxEvents
    /\ n_events' = n_events + 1
    /\ disabled' = FALSE
    /\ refs' = Attributes
    /\ show_mode' = "AUTO"
    /\ event' = ev
    /\ calls' = <<>>
    /\ err' = "none"
    /\ ret' = None
    /\ last' = Last("init")
    /\ UNCHANGED <<stack, context, storage, saved_stack, media_ids, next_id, marks>>

SubWrite(item_id, field, data) ==
    /\ DoProc(sub_write(Enter(Mgr), "list", item_id, field, data))
    /\ last' = [Last("sub.write") EXCEPT !.item = item_id, !.field = field, !.data = data]
    /\ UNCHANGED marks

SubUpdate(item_id, data, sm, env) ==
    /\ DoProc(sub_update(Enter(Mgr), "list", item_id, data, sm, env))
    /\ last' = [Last("sub.update") EXCEPT !.item = item_id, !.field = "dialog_data",
                                           !.data = data, !.sm = sm]
    /\ UNCHANGED marks

SubRead(item_id) ==
    /\ Do(sub_dialog_data(Enter(Mgr), "list", item_id))
    /\ last' = [Last("sub.dialog_data") EXCEPT !.item = item_id]
    /\ UNCHANGED marks

(***************************************************************************)
(* Navigation: the calls a handler makes on the manager of one event, on   *)
(* dialogs of every launch mode.                                           *)
(***************************************************************************)
N1 == State("N", 1)

W1 == State("W", 1)

PlainEnv == Env(Render(FALSE, FALSE), Sent("m1", None, FALSE))

CallbackEvent == Event("CallbackQuery", FALSE, None, "m0", 1)

\* The states dialogs are started at: the first state of each but W.
NavStates == {State(g, 1) : g \in Groups \ {"W"}}

NavHooks == {NoHook, [kind |-> "done", state |-> N1], [kind |-> "start", state |-> N1]}

Init ==
    /\ Construct(CallbackEvent, DEFAULT_STACK_ID)
    /\ last = Last("init")

Next ==
    \/ \E state \in NavStates, mode \in StartModes, hook \in NavHooks :
            Start(state, "d", mode, None, hook, PlainEnv)
    \/ \E hook \in NavHooks : Done(None, None, NoHook, hook, PlainEnv)
    \/ \E state \in AllStates : SwitchTo(state, None)
    \/ NextState(None)
    \/ Back(None)
    \/ \E remove_keyboard \in BOOLEAN : ResetStack(remove_keyboard)
    \/ MarkClosed
    \/ Show(None, PlainEnv)

Spec == Init /\ [][Next]_vars

(***************************************************************************)
(* Windows: the calls that move the dialog W between its states.           *)
(***************************************************************************)
WStates == {State("W", i) : i \in 1 .. MaxStates}

SwitchShowArgs == {None, "SEND"}

NextSwitch ==
    \/ \E state \in {W1, N1} : Start(state, "d", "NORMAL", None, NoHook, PlainEnv)
    \/ Done("r", None, NoHook, NoHook, PlainEnv)
    \/ \E state \in WStates \cup {N1}, sm \in SwitchShowArgs : SwitchTo(state, sm)
    \/ \E sm \in SwitchShowArgs : NextState(sm)
    \/ \E sm \in SwitchShowArgs : Back(sm)
    \/ Update([k |-> "v"], None, PlainEnv)

SpecSwitch == Init /\ [][NextSwitch]_vars

(***************************************************************************)
(* Closing: every operation of the manager, before and after close_manager.*)
(***************************************************************************)
NextClose ==
    \/ \E state \in {W1, N1} : Start(state, "d", "NORMAL", None, NoHook, PlainEnv)
    \/ Done(None, None, NoHook, NoHook, PlainEnv)
    \/ SwitchTo(State("W", 2), None)
    \/ NextState(None)
    \/ Back(None)
    \/ Show(None, PlainEnv)
    \/ Update([k |-> "v"], None, PlainEnv)
    \/ ResetStack(TRUE)
    \/ MarkClosed
    \/ \E op \in Queries : Query(op)
    \/ \E chat_id \in {0, 2}, stack_id \in {None, "s1"} : Bg(0, chat_id, stack_id)
    \/ AnswerCallback
    \/ CloseManager

SpecClose == Init /\ [][NextClose]_vars

(***************************************************************************)
(* Showing: the events, the stacks and the deliveries the show mode is     *)
(* decided from, over the managers of successive events on one stack.      *)
(***************************************************************************)
ShowEvents ==
    {Event("Message", FALSE, None, None, 1), Event("Message", FALSE, "g1", None, 1),
     Event("Message", FALSE, "g2", None, 1), Event("Message", TRUE, "g1", None, 1),
     CallbackEvent}

ShowEnvs ==
    {PlainEnv,
     Env(Render(TRUE, FALSE), Sent("m2", None, TRUE)),
     Env(Render(FALSE, TRUE), Sent("m1", "f1", FALSE)),
     Env(Render(FALSE, FALSE), NotModified),
     Env(Render(FALSE, TRUE), NotModified)}

ShowArgs == {None} \cup ShowModes

InitShow ==
    /\ \E ev \in ShowEvents, stack_id \in {DEFAULT_STACK_ID, "s1"} : Construct(ev, stack_id)
    /\ last = Last("init")

NextShow ==
    \/ \E sm \in {None, "EDIT"} : Start(N1, "d", "NORMAL", sm, NoHook, PlainEnv)
    \/ \E sm \in ShowArgs, env \in ShowEnvs : Show(sm, env)
    \/ \E sm \in {"AUTO", "SEND"} : SwitchTo(N1, sm)
    \/ CloseManager
    \/ \E ev \in ShowEvents : NewEvent(ev)

SpecShow == InitShow /\ [][NextShow]_vars

(***************************************************************************)
(* Items: the accessors of two items of the widget "list" of one dialog.   *)
(***************************************************************************)
Items == {"3", "4"}

Writes == {[k |-> "a"], [k |-> "b"]}

\* One dialog is open: the widget's dialog, started once.
NextSub ==
    \/ StackEmpty(stack) /\ Start(N1, "d", "NORMAL", None, NoHook, PlainEnv)
    \/ \E item_id \in Items, field \in {"widget_data", "dialog_data"}, data \in Writes :
            SubWrite(item_id, field, data)
    \/ \E item_id \in Items, data \in Writes : SubUpdate(item_id, data, None, PlainEnv)
    \/ \E item_id \in Items : SubRead(item_id)
    \/ \E data \in Writes : Update(data, None, PlainEnv)

SpecSub == Init /\ [][NextSub]_vars

(***************************************************************************)
(* Properties.                                                             *)
(***************************************************************************)
NavOps == {"start", "done", "switch_to", "next", "back", "reset_stack", "show"}

\* C1: after every call of start, done, switch_to, next, back, reset_stack or show
\* that returns without error, in any sequence from an empty stack, the current
\* context is absent exactly when the stack is empty, and on a non-empty stack its id
\* is the last intent id of the stack.
C1_ContextIsTop ==
    (last.op \in NavOps /\ err = "none") =>
        /\ (context = NoContext) <=> StackEmpty(stack)
        /\ ~StackEmpty(stack) => context.id = last_intent_id(stack)

\* A done has returned to a frame below: two frames are left and the context is loaded.
C1_DoneToLowerFrame ==
    /\ last.op = "done"
    /\ err = "none"
    /\ Len(stack.intents) = 2
    /\ context.id = stack.intents[2]

\* C5 (as claimed): whenever a done returns that matches a start in a properly nested
\* sequence of starts and dones, the stack has as many frames as before that start.
C5_MatchedPairsRestoreDepth ==
    (last.op = "done" /\ err = "none" /\ last.mark >= 0) => Len(stack.intents) = last.mark

\* C5 (amended): the same, for the sequences whose starts all push on top of the frames
\* there are: start mode NORMAL, of a dialog of launch mode NORMAL, or of launch mode
\* SINGLE_TOP when the top frame is not that dialog's, the hooks not navigating.
C5_PushingPairsRestoreDepth ==
    (last.op = "done" /\ err = "none" /\ last.mark >= 0 /\ last.plain) =>
        Len(stack.intents) = last.mark

\* The done of an inner pair has returned: one frame was there before its start.
C5_InnerPairDone ==
    /\ last.op = "done"
    /\ err = "none"
    /\ last.plain
    /\ last.mark = 1
    /\ Len(stack.intents) = 1

\* C6: a start (on the manager's stack: mode NORMAL or RESET_STACK) of a dialog of
\* launch mode EXCLUSIVE or ROOT that returns, its entry hook not navigating, leaves a
\* stack of depth 1 whose only frame is the new context, whatever the depth before:
\* no older context is left in storage.
C6_ExclusiveRootDepthOne ==
    (/\ last.op = "start"
     /\ err = "none"
     /\ last.mode \in {"NORMAL", "RESET_STACK"}
     /\ last.hook = "none"
     /\ launch_mode(find_dialog(last.state)) \in {"EXCLUSIVE", "ROOT"}) =>
        /\ stack.intents = <<next_id - 1>>
        /\ context = NewContext(next_id - 1, last.state, "d")
        /\ DOMAIN storage = {}

\* A ROOT dialog was started on top of two frames, both removed.
C6_RootOverTwoFrames ==
    /\ last.op = "start"
    /\ err = "none"
    /\ last.mode = "NORMAL"
    /\ last.state.group = "R"
    /\ Len(calls) >= 2
    /\ calls[1].op = "remove_context"
    /\ calls[2].op = "remove_context"
    /\ Len(stack.intents) = 1

\* Whether the frame on top of the stack belongs to the dialog of state.
TopIsDialogOf(state) ==
    /\ ~StackEmpty(stack)
    /\ context # NoContext
    /\ find_dialog(context.state) = find_dialog(state)

\* C7: a start (mode NORMAL) of a SINGLE_TOP dialog that returns, its entry hook not
\* navigating: when the top frame is that dialog's, the depth does not change, the
\* old top frame is popped and its context removed from storage before the new frame
\* is pushed; else no frame is popped and the depth grows by one.
C7_SingleTopReplacesTop ==
    [][(/\ last'.op = "start"
        /\ err' = "none"
        /\ last'.mode = "NORMAL"
        /\ last'.hook = "none"
        /\ launch_mode(find_dialog(last'.state)) = "SINGLE_TOP") =>
           IF TopIsDialogOf(last'.state)
           THEN /\ Len(stack'.intents) = Len(stack.intents)
                /\ stack'.intents =
                       Append(SubSeq(stack.intents, 1, Len(stack.intents) - 1), next_id)
                /\ calls'[1] = Entry("remove_context", context.id, None)
                /\ context.id \notin DOMAIN storage'
           ELSE /\ Len(stack'.intents) = Len(stack.intents) + 1
                /\ stack'.intents = Append(stack.intents, next_id)
                /\ \A i \in DOMAIN calls' : calls'[i].op # "remove_context"]_vars

\* The SINGLE_TOP dialog was started on top of its own frame, which was removed.
C7_SingleTopOnItself ==
    /\ last.op = "start"
    /\ err = "none"
    /\ last.mode = "NORMAL"
    /\ last.hook = "none"
    /\ last.state.group = "S"
    /\ Len(calls) >= 1
    /\ calls[1].op = "remove_context"
    /\ Len(stack.intents) = 2

\* The row of an item of the widget "list" in a context's widget data, as the item's
\* accessor sees it (empty when not bound yet).
Row(ctx, item_id) ==
    IF "list" \in DOMAIN ctx.widget_data /\ item_id \in DOMAIN ctx.widget_data["list"]
    THEN ctx.widget_data["list"][item_id]
    ELSE EmptyDict

SubWrites == {"sub.write", "sub.update"}

AtFirstState == context # NoContext /\ current_index(Mgr) = 0

AtLastState ==
    context # NoContext /\ current_index(Mgr) = Len(states(context.state.group)) - 1

\* C3: next called at the last state of the dialog's states, and back called at the
\* first, fail with an index error and leave the current context unmodified.
C3_BoundaryCallsFail ==
    [][((last'.op = "next" /\ AtLastState) \/ (last'.op = "back" /\ AtFirstState)) =>
           err' = "IndexError" /\ context' = context]_vars

\* C4: once close_manager has completed, every later call of an operation of the
\* manager fails with IncorrectBackgroundError, and the manager holds no reference to
\* the event, the middleware data, the message manager or the media-id storage.
C4_ClosedManagerRefuses ==
    disabled =>
        /\ refs = {}
        /\ \/ last.op = "close_manager" /\ err = "none"
           \/ err = "IncorrectBackgroundError"

SwitchOps == {"switch_to", "next", "back"}

\* What switch_to, next and back leave alone: the stack, the current context's id and
\* data, the storage, and the collaborators (no call is made).
SwitchFrame ==
    /\ stack' = stack
    /\ storage' = storage
    /\ saved_stack' = saved_stack
    /\ media_ids' = media_ids
    /\ calls' = <<>>
    /\ IF context = NoContext THEN context' = NoContext
       ELSE /\ context'.id = context.id
            /\ context'.start_data = context.start_data
            /\ context'.dialog_data = context.dialog_data
            /\ context'.widget_data = context.widget_data

\* C8 (as claimed): switch_to, next and back change neither the stack nor the current
\* context's id, start_data, dialog_data or widget_data and make no storage or
\* delivery call; they only replace the current context's state.
C8_SwitchOnlyReplacesState ==
    [][last'.op \in SwitchOps => SwitchFrame /\ show_mode' = show_mode]_vars

\* C8 (amended): the same, except that a call given a show_mode argument that passes
\* its checks also makes it the manager's pending show mode.
C8_SwitchReplacesStateAndShowMode ==
    [][last'.op \in SwitchOps =>
           /\ SwitchFrame
           /\ show_mode' = IF err' = "none" /\ last'.sm # None THEN last'.sm ELSE show_mode]_vars

\* switch_to has moved a context that holds data, and was given a show mode.
C8_SwitchedWithData ==
    /\ last.op = "switch_to"
    /\ last.sm = "SEND"
    /\ err = "none"
    /\ context.state = State("W", 3)
    /\ context.dialog_data = [k |-> "v"]
    /\ Len(stack.intents) = 2

\* The current state is neither the first nor the last of its dialog's states.
NonBoundaryState == context # NoContext /\ ~AtFirstState /\ ~AtLastState

\* C9: from a current state that is neither the first nor the last state of its dialog,
\* next followed by back, and back followed by next, return the current context to
\* its original state.
C9_NextBackRoundTrip ==
    [][(NonBoundaryState /\ err' = "none") =>
           /\ last'.op = "next" =>
                  /\ Ok(back(Enter(Mgr'), None))
                  /\ back(Enter(Mgr'), None).context.state = context.state
           /\ last'.op = "back" =>
                  /\ Ok(next(Enter(Mgr'), None))
                  /\ next(Enter(Mgr'), None).context.state = context.state]_vars

\* next has moved the context from the state before the last one.
C9_NextFromMiddle ==
    /\ last.op = "next"
    /\ err = "none"
    /\ context.state = State("W", MaxStates)

\* The decision of section 4.2, from the stack and the event.
AutoDecision ==
    IF stack.last_reply_keyboard THEN "DELETE_AND_SEND"
    ELSE IF stack.id # DEFAULT_STACK_ID THEN "EDIT"
    ELSE IF event.kind = "Message" /\ ~event.error
         THEN IF event.media_group_id = None THEN "SEND"
              ELSE IF event.media_group_id = stack.last_income_media_group_id THEN "EDIT"
              ELSE "SEND"
    ELSE "EDIT"

\* The show mode of the message a call handed to the message manager.
ShownMode(cs) == cs[CHOOSE i \in DOMAIN cs : cs[i].op = "show_message"].arg

\* C10: when the effective show mode of a show (its argument, else the pending mode)
\* is AUTO, the show mode of the message delivered is DELETE_AND_SEND if the stack's
\* last_reply_keyboard flag is set; else EDIT on a stack that is not the default one;
\* else, for a message event, SEND with no media-group id, EDIT with the stack's
\* last_income_media_group_id, SEND otherwise; else EDIT.
C10_AutoDecisionTable ==
    [][(/\ last'.op = "show"
        /\ (IF last'.sm # None THEN last'.sm ELSE show_mode) = "AUTO"
        /\ \E i \in DOMAIN calls' : calls'[i].op = "show_message") =>
           ShownMode(calls') = AutoDecision]_vars

(***************************************************************************)
(* Background: the handles bg makes, for events with and without a chat.   *)
(***************************************************************************)
\* A callback event of user 1 with no chat bound ("event_chat" is not in the data).
ChatlessEvent == Event("CallbackQuery", FALSE, None, "m0", 0)

InitBg ==
    /\ \E ev \in {CallbackEvent, ChatlessEvent}, stack_id \in {DEFAULT_STACK_ID, "s1"} :
            Construct(ev, stack_id)
    /\ last = Last("init")

NextBg ==
    \/ Start(N1, "d", "NORMAL", None, NoHook, PlainEnv)
    \/ Done(None, None, NoHook, NoHook, PlainEnv)
    \/ \E user_id \in {0, 1, 2}, chat_id \in {0, 1, 2}, stack_id \in {None, "s2"} :
            Bg(user_id, chat_id, stack_id)

SpecBg == InitBg /\ [][NextBg]_vars

\* The user and the chat a bg call targets: the event's own where none is given.
BgTargetUser == IF last.user_id = 0 THEN event.user_id ELSE last.user_id

BgTargetChat == IF last.chat_id = 0 THEN event.chat_id ELSE last.chat_id

\* C11: bg called without stack_id (on a manager not closed): with no chat bound to
\* the event and no chat_id given it fails with ValueError; else, when the target
\* user and chat are the event's, the handle has the current stack's id and the
\* current context's intent id (none when no context is current); else it has the
\* default stack id and no intent id.
C11_BgResolvesStack ==
    (last.op = "bg" /\ last.stack_id = None) =>
        IF event.chat_id = 0 /\ last.chat_id = 0 THEN err = "ValueError"
        ELSE /\ err = "none"
             /\ IF /\ event.chat_id # 0
                   /\ BgTargetUser = event.user_id
                   /\ BgTargetChat = event.chat_id
                THEN /\ ret.stack_id = stack.id
                     /\ ret.intent_id = IF context = NoContext THEN 0 ELSE context.id
                ELSE /\ ret.stack_id = DEFAULT_STACK_ID
                     /\ ret.intent_id = 0

\* bg has reused a stack that is not the default one, with the current context's id.
C11_BgReusesCurrentStack ==
    /\ last.op = "bg"
    /\ last.stack_id = None
    /\ err = "none"
    /\ ret.stack_id = "s1"
    /\ ret.intent_id = 2

\* C12: reset_stack, from any depth (none included), ends with an empty stack and no
\* current context; it removes from storage the context of every frame it popped, top
\* first, then persists the empty stack, once, and it asks the message manager to
\* remove the keyboard only when remove_keyboard is true.
C12_ResetStackClears ==
    [][(last'.op = "reset_stack" /\ err' = "none") =>
           /\ stack'.intents = <<>>
           /\ context' = NoContext
           /\ \A i \in DOMAIN stack.intents : stack.intents[i] \notin DOMAIN storage'
           /\ Len(calls') \in {Len(stack.intents) + 1, Len(stack.intents) + 2}
           /\ \A i \in DOMAIN stack.intents :
                  calls'[i] = Entry("remove_context",
                                    stack.intents[Len(stack.intents) + 1 - i], None)
           /\ calls'[Len(stack.intents) + 1] = Entry("save_stack", 0, None)
           /\ saved_stack' = <<(<<>>)>>
           /\ Len(calls') = Len(stack.intents) + 2 =>
                  /\ calls'[Len(calls')].op = "remove_kbd"
                  /\ last'.mode = "remove"]_vars

\* reset_stack has popped two frames and asked for the removal of the keyboard.
C12_ResetTwoFrames ==
    /\ last.op = "reset_stack"
    /\ last.mode = "remove"
    /\ err = "none"
    /\ Len(calls) = 4
    /\ calls[1].op = "remove_context"
    /\ calls[2].op = "remove_context"
    /\ calls[4].op = "remove_kbd"

\* The effective show mode of the show about to return: its argument, else the
\* pending show mode.
EffectiveShowMode == IF last'.sm # None THEN last'.sm ELSE show_mode

\* C13: show with a current context: when the effective show mode (the argument when
\* one is given, else the pending mode) is NO_UPDATE, show makes no render and no
\* delivery call; when it is not and show returns, the message manager is called with
\* that mode, AUTO replaced by the result of the decision (_calc_show_mode).
C13_EffectiveModeDelivered ==
    [][(last'.op = "show" /\ context # NoContext) =>
           IF EffectiveShowMode = "NO_UPDATE" THEN calls' = <<>> /\ err' = "none"
           ELSE err' = "none" =>
                    /\ \E i \in DOMAIN calls' : calls'[i].op = "show_message"
                    /\ ShownMode(calls') = IF EffectiveShowMode = "AUTO"
                                           THEN _calc_show_mode(Mgr)
                                           ELSE EffectiveShowMode]_vars

\* The hook of the start about to return.
LastHook == CHOOSE h \in NavHooks : h.kind = last'.hook

\* Whether the start about to return did what reset_stack(remove_keyboard) followed
\* by a start with mode NORMAL on the emptied stack does, call for call.
ResetThenNormal(cleared, normal) ==
    /\ calls' = cleared.calls \o normal.calls
    /\ err' = normal.err
    /\ stack' = normal.stack
    /\ context' = normal.context
    /\ storage' = normal.storage
    /\ saved_stack' = normal.saved_stack
    /\ show_mode' = normal.show_mode
    /\ next_id' = normal.next_id

ResetThenNormalWith(cleared) ==
    ResetThenNormal(cleared,
                    start(Enter(cleared), last'.state, "d", "NORMAL", None, LastHook, PlainEnv))

\* C14 (as claimed): a start with mode RESET_STACK on a stack that has a last
\* delivered message first clears the stack and asks the message manager to remove
\* the keyboard, then does what a start with mode NORMAL does on the emptied stack.
C14_ResetStackRemovesKeyboard ==
    [][(last'.op = "start" /\ last'.mode = "RESET_STACK" /\ stack.last_message_id # None) =>
           /\ calls'[Len(stack.intents) + 1].op = "save_stack"
           /\ calls'[Len(stack.intents) + 2].op = "remove_kbd"
           /\ ResetThenNormalWith(reset_stack(Enter(Mgr), TRUE))]_vars

\* C14 (amended): a start with mode RESET_STACK on a stack that has a last delivered
\* message first clears the stack, without asking the message manager to remove the
\* keyboard (the call after the stack is persisted is not a keyboard removal),
\* then does what a start with mode NORMAL does on the emptied stack.
C14_ResetStackKeepsKeyboard ==
    [][(last'.op = "start" /\ last'.mode = "RESET_STACK" /\ stack.last_message_id # None) =>
           /\ calls'[Len(stack.intents) + 1].op = "save_stack"
           /\ calls'[Len(stack.intents) + 2].op # "remove_kbd"
           /\ ResetThenNormalWith(reset_stack(Enter(Mgr), FALSE))]_vars

\* A start with mode RESET_STACK has cleared two frames of a stack with a last message.
C14_ResetStartOverTwoFrames ==
    /\ last.op = "start"
    /\ last.mode = "RESET_STACK"
    /\ err = "none"
    /\ Len(calls) >= 3
    /\ calls[1].op = "remove_context"
    /\ calls[2].op = "remove_context"
    /\ calls[3].op = "save_stack"
    /\ stack.last_message_id # None
    /\ Len(stack.intents) = 1

\* C15: a done that returns has first called process_close of the closing dialog, then
\* removed the popped context from storage, then persisted the stack; process_result
\* of the dialog below, called when a frame is left, comes fourth, with the popped
\* frame's start_data, and the popped context is out of storage by then.
C15_DoneCallOrder ==
    [][(last'.op = "done" /\ context # NoContext /\ err' = "none") =>
           /\ Len(calls') >= 3
           /\ calls'[1].op = "process_close" /\ calls'[1].id = context.id
           /\ calls'[2].op = "remove_context" /\ calls'[2].id = context.id
           /\ calls'[3].op = "save_stack"
           /\ Len(stack.intents) >= 2 =>
                  /\ Len(calls') >= 4
                  /\ calls'[4].op = "process_result"
                  /\ calls'[4].id = stack.intents[Len(stack.intents) - 1]
                  /\ calls'[4].data = context.start_data
           /\ Len(stack.intents) < 2 =>
                  \A i \in DOMAIN calls' : calls'[i].op # "process_result"]_vars

\* A done has handed the result to the dialog of the frame below.
C15_DoneNotifiedLowerDialog ==
    /\ last.op = "done"
    /\ err = "none"
    /\ Len(calls) >= 4
    /\ calls[1].op = "process_close"
    /\ calls[2].op = "remove_context"
    /\ calls[3].op = "save_stack"
    /\ calls[4].op = "process_result"
    /\ calls[4].data = "d"

\* C16: a start with mode NORMAL over an EXCLUSIVE dialog raises ValueError, whatever
\* the launch mode of the dialog asked for, with no call made and the stack's intents,
\* the current context and the stored contexts as they were; a switch_to to a state of
\* another group raises ValueError and leaves the current context as it was.
C16_RefusedStepChangesNothing ==
    [][/\ (/\ last'.op = "start"
            /\ last'.mode = "NORMAL"
            /\ context # NoContext
            /\ launch_mode(find_dialog(context.state)) = "EXCLUSIVE")
           => /\ err' = "ValueError"
              /\ calls' = <<>>
              /\ stack'.intents = stack.intents
              /\ context' = context
              /\ storage' = storage
       /\ (/\ last'.op = "switch_to"
            /\ context # NoContext
            /\ last'.state.group # context.state.group)
           => /\ err' = "ValueError"
              /\ context' = context
              /\ stack' = stack
              /\ storage' = storage]_vars

\* A start of the ROOT dialog has been refused over the EXCLUSIVE dialog, still current.
C16_RootRefusedOverExclusive ==
    /\ last.op = "start"
    /\ last.mode = "NORMAL"
    /\ last.state.group = "R"
    /\ err = "ValueError"
    /\ context # NoContext
    /\ context.state.group = "E"
    /\ Len(stack.intents) = 1
    /\ storage = <<>>

\* The four identifiers of the last message a stack keeps.
LastMessageOf(s) ==
    <<s.last_message_id, s.last_media_id, s.last_media_unique_id, s.last_reply_keyboard>>

\* Whether the show about to return has called the message manager's show_message.
ShowDelivered == \E i \in DOMAIN calls' : calls'[i].op = "show_message"

\* C17: a show whose show_message call the message manager answers with
\* MessageNotModified returns without error, keeps the stack's four last-message
\* identifiers and saves nothing to the media-id storage; a show whose call is
\* answered with a sent message leaves the four identifiers equal to that message's.
C17_NotModifiedKeepsIdentifiers ==
    [][(last'.op = "show" /\ ShowDelivered) =>
           /\ err' = "none"
           /\ IF last'.env.delivery.modified
              THEN LastMessageOf(stack') =
                       <<last'.env.delivery.message_id, last'.env.delivery.media_id,
                         last'.env.delivery.media_uniq_id,
                         last'.env.delivery.has_reply_keyboard>>
              ELSE /\ LastMessageOf(stack') = LastMessageOf(stack)
                   /\ media_ids' = media_ids
                   /\ \A i \in DOMAIN calls' : calls'[i].op # "save_media_id"]_vars

\* A show of a message with media was answered with MessageNotModified on a stack
\* that has a last message with media.
C17_NotModifiedMedia ==
    /\ last.op = "show"
    /\ \E i \in DOMAIN calls : calls[i].op = "show_message"
    /\ ~last.env.delivery.modified
    /\ last.env.render.media
    /\ stack.last_message_id = "m1"
    /\ stack.last_media_id = "f1"

\* Whether the show about to return has rendered the dialog's message.
ShowRendered == \E i \in DOMAIN calls' : calls'[i].op = "render"

\* C18: a show that renders a message with a reply keyboard raises
\* InvalidKeyboardType on a stack other than the default one, without calling the
\* message manager's show_message and with the stack as it was; on the default stack
\* it calls show_message and returns without error.
C18_ReplyKeyboardOnlyOnDefaultStack ==
    [][(last'.op = "show" /\ ShowRendered /\ last'.env.render.reply_keyboard) =>
           IF stack.id # DEFAULT_STACK_ID
           THEN /\ err' = "InvalidKeyboardType"
                /\ ~ShowDelivered
                /\ stack' = stack
           ELSE /\ err' = "none"
                /\ ShowDelivered
                /\ stack'.last_reply_keyboard]_vars

\* A show of a reply keyboard was refused on the stack s1, which has a last message.
C18_ReplyKeyboardRefused ==
    /\ last.op = "show"
    /\ last.env.render.reply_keyboard
    /\ err = "InvalidKeyboardType"
    /\ stack.id = "s1"
    /\ stack.last_message_id = "m1"
    /\ calls[Len(calls)].op = "render"

\* C19: a start with mode NEW_STACK returns with the stack, the current context, the
\* stored contexts and the persisted stack as they were; its one call hands a start
\* with mode NORMAL to a BgManager bound to the new stack's id, which is not the id of
\* the stack it was called on.
C19_NewStackLeavesStack ==
    [][(last'.op = "start" /\ last'.mode = "NEW_STACK") =>
           /\ err' = "none"
           /\ stack' = stack
           /\ context' = context
           /\ storage' = storage
           /\ saved_stack' = saved_stack
           /\ Len(calls') = 1
           /\ calls'[1].op = "bg_start"
           /\ calls'[1].arg = "NORMAL"
           /\ calls'[1].data = FreshStackId
           /\ calls'[1].data # stack.id]_vars

\* A start with mode NEW_STACK has returned on a stack of two frames.
C19_NewStackOverTwoFrames ==
    /\ last.op = "start"
    /\ last.mode = "NEW_STACK"
    /\ err = "none"
    /\ Len(stack.intents) = 2
    /\ Len(storage) = 1
    /\ calls # <<>>
    /\ calls[1].op = "bg_start"

(***************************************************************************)
(* No dialog: the calls that need a current context, made with and without *)
(* one, under every pending show mode a start can leave.                   *)
(***************************************************************************)
PendingArgs == {None, "NO_UPDATE"}

NoContextShowArgs == {None, "SEND", "NO_UPDATE"}

NextNoContext ==
    \/ \E state \in {W1, N1}, sm \in PendingArgs :
            Start(state, "d", "NORMAL", sm, NoHook, PlainEnv)
    \/ \E sm \in NoContextShowArgs : Done("r", sm, NoHook, NoHook, PlainEnv)
    \/ \E state \in {W1, N1} : SwitchTo(state, None)
    \/ NextState(None)
    \/ Back(None)
    \/ \E sm \in NoContextShowArgs : Update(EmptyDict, sm, PlainEnv)
    \/ \E sm \in NoContextShowArgs : Show(sm, PlainEnv)

SpecNoContext == Init /\ [][NextNoContext]_vars

\* The calls that need a current context.
ContextOps == {"done", "switch_to", "next", "back", "update", "show"}

\* C20: done, switch_to, next, back, update and a show whose effective show mode is not
\* NO_UPDATE, called on an empty stack with no current context, raise NoContextError
\* and leave the stack and the stored contexts as they were.
C20_NoContextRefused ==
    [][(/\ last'.op \in ContextOps
        /\ StackEmpty(stack)
        /\ context = NoContext
        /\ ~(last'.op = "show" /\ EffectiveShowMode = "NO_UPDATE")) =>
           /\ err' = "NoContextError"
           /\ stack' = stack
           /\ storage' = storage]_vars

\* How many times the dialogs were asked to render in a sequence of calls, and how
\* many of these were for the context id.
RenderCount(seq) == Cardinality({i \in DOMAIN seq : seq[i].op = "render"})

RenderCountOf(seq, id) ==
    Cardinality({i \in DOMAIN seq : seq[i].op = "render" /\ seq[i].id = id})

\* The id a start that pushes gives its frame, and the id of the frame a done makes
\* current (0 when it pops the only frame).
InstalledId ==
    IF last'.op = "start" THEN next_id
    ELSE IF Len(stack.intents) >= 2 THEN stack.intents[Len(stack.intents) - 1]
    ELSE 0

\* How many renders the hook of the call about to return made itself: a hook that
\* navigated and left a current context has shown it once.
HookRenders == IF last'.hook # "none" /\ context' # NoContext THEN 1 ELSE 0

\* C21: a start that pushed a frame and ran the entry hook, and a done that popped a
\* frame and ran the result hook, render the installed context once, after the hook,
\* exactly when the context current after the hook has the id installed before it;
\* when the hook left another context or none, the only renders are the hook's.
C21_ShowOnlyWhenHookKeptContext ==
    [][(/\ \/ last'.op = "start" /\ last'.mode # "NEW_STACK"
           \/ last'.op = "done" /\ Len(stack.intents) >= 2
        /\ err' = "none") =>
           IF context' # NoContext /\ context'.id = InstalledId
           THEN /\ RenderCountOf(calls', InstalledId) = 1
                /\ calls'[Len(calls') - 1].op = "render"
                /\ calls'[Len(calls') - 1].id = InstalledId
                /\ calls'[Len(calls')].op = "show_message"
                /\ RenderCount(calls') = 1
           ELSE /\ RenderCountOf(calls', InstalledId) = 0
                /\ RenderCount(calls') = HookRenders]_vars

\* A start whose entry hook started another dialog has returned: the one render is the
\* hook's, of the frame the hook pushed.
C21_HookStartedAnotherDialog ==
    /\ last.op = "start"
    /\ last.hook = "start"
    /\ last.mode = "NORMAL"
    /\ err = "none"
    /\ RenderCount(calls) = 1
    /\ RenderCountOf(calls, context.id) = 1
    /\ Len(stack.intents) >= 2
    /\ context.id = next_id - 1

\* The calls a done makes up to and including the persisting of the stack.
ClosingCalls ==
    <<Entry("process_close", context.id, last'.result),
      Entry("remove_context", context.id, None),
      Entry("save_stack", 0, None)>>

\* C22: a done on a stack of one frame leaves no frame and no current context; after
\* process_close and the persisting of the pop its only call is the message manager's
\* remove_kbd, made when the stack has a last message id, which is then None; no
\* process_result and no render is called. A done on a stack of two frames or more
\* calls process_result of the dialog of the frame below with the popped frame's
\* start_data and the result given.
C22_LastFrameDoneOnlyRemovesKeyboard ==
    [][(last'.op = "done" /\ context # NoContext) =>
           /\ err' = "none"
           /\ IF Len(stack.intents) = 1
              THEN /\ StackEmpty(stack')
                   /\ context' = NoContext
                   /\ stack'.last_message_id = None
                   /\ SubSeq(calls', 1, 3) = ClosingCalls
                   /\ IF stack.last_message_id = None THEN Len(calls') = 3
                      ELSE Len(calls') = 4 /\ calls'[4].op = "remove_kbd"
              ELSE /\ Len(calls') >= 4
                   /\ calls'[4] = [Entry("process_result",
                                          stack.intents[Len(stack.intents) - 1], last'.result)
                                       EXCEPT !.data = context.start_data]
                   /\ \A i \in DOMAIN calls' : calls'[i].op # "remove_kbd"]_vars

\* A done has closed the only frame of a stack that has no last message: nothing was
\* asked of the message manager.
C22_LastFrameClosedWithoutMessage ==
    /\ last.op = "done"
    /\ last.result = "r"
    /\ err = "none"
    /\ StackEmpty(stack)
    /\ context = NoContext
    /\ Len(calls) = 3
    /\ calls[1].op = "process_close"

\* Whether the event of the manager is a message.
MessageEvent == event.kind = "Message" /\ ~event.error

\* C23: every show of a message event that renders and returns, also one answered
\* with MessageNotModified, leaves the event's media group id as the stack's
\* last_income_media_group_id, and nothing else changes that field; and a show under
\* the pending mode AUTO with no show mode given, on the default stack with no reply
\* keyboard flag, of a message event with a media group id, is delivered with EDIT when
\* that id is the stack's last_income_media_group_id and with SEND when it is not. So
\* of two message events in a row with the same new media group id the first is
\* shown with SEND and the second with EDIT.
C23_MediaGroupRecordedThenEdited ==
    [][/\ (last'.op = "show" /\ ShowRendered /\ err' = "none" /\ MessageEvent) =>
              stack'.last_income_media_group_id = event.media_group_id
       /\ stack'.last_income_media_group_id # stack.last_income_media_group_id =>
              /\ last'.op \in {"show", "start"}
              /\ MessageEvent
              /\ stack'.last_income_media_group_id = event.media_group_id
       /\ (/\ last'.op = "show"
            /\ last'.sm = None
            /\ show_mode = "AUTO"
            /\ stack.id = DEFAULT_STACK_ID
            /\ ~stack.last_reply_keyboard
            /\ MessageEvent
            /\ event.media_group_id # None
            /\ ShowRendered) =>
              /\ ShowDelivered
              /\ ShownMode(calls') =
                     IF stack.last_income_media_group_id = event.media_group_id
                     THEN "EDIT" ELSE "SEND"]_vars

\* The second of two message events of the media group g1 has been shown with EDIT,
\* its one show answered with MessageNotModified.
C23_SecondOfGroupEdited ==
    /\ n_events = 1
    /\ last.op = "show"
    /\ last.sm = None
    /\ ~last.env.delivery.modified
    /\ show_mode = "AUTO"
    /\ event.kind = "Message" /\ ~event.error
    /\ event.media_group_id = "g1"
    /\ stack.id = DEFAULT_STACK_ID
    /\ stack.last_income_media_group_id = "g1"
    /\ Len(calls) = 2
    /\ calls[2].op = "show_message"
    /\ calls[2].arg = "EDIT"

\* The intent ids of the frames of the stack, and of those below the top.
IntentIds == {stack.intents[i] : i \in DOMAIN stack.intents}

LowerIntentIds == {stack.intents[i] : i \in 1 .. (Len(stack.intents) - 1)}

\* C24: from an empty stack and an empty storage, whatever calls were made, the storage
\* holds the context of every frame below the top of the stack, under that frame's
\* id, and holds no context of an id that is not in the stack; so the context a done
\* loads after its pop is never absent.
C24_StorageMatchesStack ==
    /\ LowerIntentIds \subseteq DOMAIN storage
    /\ DOMAIN storage \subseteq IntentIds
    /\ \A id \in DOMAIN storage : storage[id].id = id
    /\ (last.op = "done" /\ err = "none" /\ ~StackEmpty(stack) /\ last.hook = "none") =>
           /\ context # NoContext
           /\ last_intent_id(stack) \in DOMAIN storage
           /\ context.id = storage[last_intent_id(stack)].id

\* A done has popped the third frame made: two frames are left, both in storage, the
\* top one as it was saved when the third was started over it.
C24_TwoStoredBelowTop ==
    /\ last.op = "done"
    /\ err = "none"
    /\ Len(stack.intents) = 2
    /\ DOMAIN storage = IntentIds
    /\ next_id = 4

\* C25: over an EXCLUSIVE dialog a start with mode NORMAL raises ValueError, while a
\* start with mode RESET_STACK, its entry hook doing nothing, returns without error
\* and leaves a stack of the one frame it pushed, current and at the state asked for.
C25_ResetStackStartsOverExclusive ==
    [][(last'.op = "start" /\ ExclusiveOnTop) =>
           /\ last'.mode = "NORMAL" => err' = "ValueError" /\ stack' = stack
           /\ (last'.mode = "RESET_STACK" /\ last'.hook = "none") =>
                  /\ err' = "none"
                  /\ stack'.intents = <<next_id>>
                  /\ context'.id = next_id
                  /\ context'.state = last'.state
                  /\ DOMAIN storage' = {}]_vars

\* A start with mode RESET_STACK has put the dialog N in the place of the EXCLUSIVE
\* dialog: the removal of frame 1, the EXCLUSIVE one, is the first call.
C25_NormalDialogReplacedExclusive ==
    /\ last.op = "start"
    /\ last.mode = "RESET_STACK"
    /\ last.exclusive
    /\ last.hook = "none"
    /\ last.state.group = "N"
    /\ err = "none"
    /\ stack.intents = <<2>>
    /\ calls[1] = Entry("remove_context", 1, None)
    /\ saved_stack = <<(<<>>)>>

====
